---- MODULE Spec2Model ----
(***************************************************************************)
(* Model of virtuakube's Universe (src/universe.go): construction (New),   *)
(* the three goroutines New launches, teardown (Close), the allocators     *)
(* (Tmpdir, the port channel, ipv4) and the environment they run in (the   *)
(* parent context, the vde_switch process, the filesystem).                *)
(***************************************************************************)
EXTENDS Integers, Sequences, FiniteSets, TLC

(***************************************************************************)
(* Bounds of the model.                                                    *)
(***************************************************************************)
\* explicit Close calls the user goroutines may issue in total
MaxCalls == 2
\* ports the consumers may request in total
MaxPorts == 2
\* Tmpdir calls in total
MaxTmpdirs == 2
\* ipv4 calls in the allocator specification
MaxAllocs == 257
\* Wait calls
MaxWaits == 2
MaxTools == 3
MaxRaceCalls == 3

(***************************************************************************)
(* Program constants.                                                      *)
(***************************************************************************)
universeTools == <<"vde_switch", "qemu-system-x86_64", "qemu-img">>
\* port := 50000
FirstPort == 50000
\* net.IP is a []byte: u.nextIP4[3]++ is arithmetic modulo 256
ByteMod == 256
\* net.ParseIP("172.20.0.1").To4()
FirstIP4 == <<172, 20, 0, 1>>
\* net.ParseIP("fd00::1")
FirstIP6 == <<253, 0, 0, 0, 0, 0, 0, 0, 0, 0, 0, 0, 0, 0, 0, 1>>

(***************************************************************************)
(* The goroutines.                                                         *)
(***************************************************************************)
Users == {"user1", "user2"}
\* every goroutine that can call Close: New itself (spawn failure), the
\* switch-exit watcher, the cancellation watcher and the explicit callers
Closers == {"new", "watchA", "watchB"} \cup Users
Consumers == {"cons1", "cons2"}
Prefixes == {"vm"}
\* the random suffixes ioutil.TempDir can draw
Suffixes == {1, 2}

\* what exec.LookPath can answer for one tool
LookResults == {"found", "notfound", "error"}

NoErr == [kind |-> "nil", tools |-> <<>>]
\* no call has returned yet
NoResult == [kind |-> "none", tools |-> <<>>]
\* the goroutines that call ipv4 without serializing their calls
Racers == {"r1", "r2"}

VARIABLES
    lookPath,    \* environment: tool -> what exec.LookPath answers for it
    newPc,       \* position of New
    newRet,      \* what New returned: [u |-> handle returned, err |-> error]
    parentDone,  \* the caller's context is cancelled
    ctxMade,     \* the child context has been derived (line 73)
    ctxDone,     \* u.ctx is cancelled
    dirExists,   \* the workspace directory u.tmpdir exists
    entries,     \* the directories inside the workspace
    swtch,       \* the vde_switch process: "unstarted", "running", "exited"
    launched,    \* the goroutines New has launched
    closeMu,     \* holder of u.closeMu, or "free"
    closed,      \* u.closed
    closeErr,    \* u.closeErr
    cpc,         \* position of each goroutine inside Close
    calls,       \* explicit Close calls issued so far
    returned,    \* every value a Close call has returned
    bodyRuns,    \* times the cleanup body was entered (u.closed = true)
    cancelCalls, \* times u.shutdown() was called
    removeCalls, \* times os.RemoveAll(u.tmpdir) finished
    tmpLog,      \* results of the Tmpdir calls, in order
    prodPc,      \* position of the port goroutine
    port,        \* its local variable port
    delivered,   \* the values received from u.ports, in order
    cons,        \* per consumer: "idle" or "recv" (blocked in its receive)
    consAfter,   \* per consumer: the attempt began after the parent's cancel
    consLog,     \* results of the finished receives, in order
    nextIP4,     \* u.nextIP4
    issued4,     \* the addresses ipv4 returned, in order
    nextIP6,     \* u.nextIP6
    issued6,     \* the addresses ipv6 returned, in order
    waitPc,      \* the goroutine calling Wait: "idle" or "blocked" in its select
    waitCtxDone, \* the context given to the current Wait call is done
    waitLog,     \* results of the finished Wait calls, in order
    toolsIn,     \* the list a checkTools call is given
    toolsOut,    \* what that call returned, "none" before it has
    heap,        \* the byte arrays the racing ipv4 calls work on
    cursor,      \* u.nextIP4 as a reference into heap
    rpc,         \* position of each racing caller inside ipv4
    rret,        \* its local variable ret, a reference into heap
    rlog,        \* the addresses the racing calls returned, in order
    overlapped   \* two ipv4 calls have been in progress at once

vars == <<lookPath, newPc, newRet, parentDone, ctxMade, ctxDone, dirExists,
          entries, swtch, launched, closeMu, closed, closeErr, cpc, calls,
          returned, bodyRuns, cancelCalls, removeCalls, tmpLog, prodPc, port,
          delivered, cons, consAfter, consLog, nextIP4, issued4, nextIP6,
          issued6, waitPc, waitCtxDone, waitLog, toolsIn, toolsOut, heap,
          cursor, rpc, rret, rlog, overlapped>>

envVars == <<lookPath, parentDone>>
newVars == <<newPc, newRet>>
fsVars == <<dirExists, entries>>
closeVars == <<closeMu, closed, closeErr, cpc, returned, bodyRuns,
               cancelCalls, removeCalls>>
portVars == <<prodPc, port, delivered, cons, consAfter, consLog>>
ipVars == <<nextIP4, issued4>>
ip6Vars == <<nextIP6, issued6>>
waitVars == <<waitPc, waitCtxDone, waitLog>>
toolVars == <<toolsIn, toolsOut>>
raceVars == <<heap, cursor, rpc, rret, rlog, overlapped>>
\* what New, Close, Tmpdir and the port goroutine never touch
otherVars == <<ip6Vars, waitVars, toolVars, raceVars>>
\* the Universe, its goroutines and its environment
coreVars == <<lookPath, newPc, newRet, parentDone, ctxMade, ctxDone,
              dirExists, entries, swtch, launched, closeMu, closed, closeErr,
              cpc, calls, returned, bodyRuns, cancelCalls, removeCalls,
              tmpLog, prodPc, port, delivered, cons, consAfter, consLog>>

(***************************************************************************)
(* checkTools (lines 22-40).                                               *)
(***************************************************************************)
RECURSIVE CheckToolsFrom_FirstOnly(_, _, _, _)
\* a loop that returns at the first tool that is not found, naming it alone
CheckToolsFrom_FirstOnly(look, tools, i, missing) ==
    IF i > Len(tools)
    THEN NoErr
    ELSE IF look[tools[i]] = "found"
         THEN CheckToolsFrom_FirstOnly(look, tools, i + 1, missing)
         ELSE IF look[tools[i]] = "notfound"
              THEN [kind |-> "missing", tools |-> <<tools[i]>>]
              ELSE [kind |-> "lookup", tools |-> <<tools[i]>>]

RECURSIVE CheckToolsFrom(_, _, _, _)
\* the loop of checkTools from index i on, with the missing list so far
CheckToolsFrom(look, tools, i, missing) ==
    IF i > Len(tools)
    THEN IF Len(missing) > 0
         THEN [kind |-> "missing", tools |-> missing]
         ELSE NoErr
    ELSE IF look[tools[i]] = "found"
         THEN CheckToolsFrom(look, tools, i + 1, missing)
         ELSE IF look[tools[i]] = "notfound"
              THEN CheckToolsFrom(look, tools, i + 1, Append(missing, tools[i]))
              ELSE [kind |-> "lookup", tools |-> <<tools[i]>>]

checkTools(look, tools) == CheckToolsFrom(look, tools, 1, <<>>)

ToolSet == {universeTools[i] : i \in 1..Len(universeTools)}

(***************************************************************************)
(* Initial state: New has been called and has not run its first line.      *)
(***************************************************************************)
\* nobody is inside Wait
WaitInit ==
    /\ waitPc = "idle"
    /\ waitCtxDone = FALSE
    /\ waitLog = <<>>

\* checkTools is called by New only, with universeTools
ToolInit ==
    /\ toolsIn = universeTools
    /\ toolsOut = NoResult

\* nobody is inside an unserialized ipv4 call; the heap view of u.nextIP4
\* is used by the specification of unserialized calls only
RaceInit ==
    /\ heap = <<>>
    /\ cursor = 0
    /\ rpc = [r \in Racers |-> "idle"]
    /\ rret = [r \in Racers |-> 0]
    /\ rlog = <<>>
    /\ overlapped = FALSE

\* no Universe exists: New has not run its first line
Unbuilt ==
    /\ nextIP6 = [i \in 1..16 |-> 0]
    /\ issued6 = <<>>
    /\ newPc = "checkTools"
    /\ newRet = [u |-> FALSE, err |-> NoErr]
    /\ parentDone = FALSE
    /\ ctxMade = FALSE
    /\ ctxDone = FALSE
    /\ dirExists = FALSE
    /\ entries = {}
    /\ swtch = "unstarted"
    /\ launched = {}
    /\ closeMu = "free"
    /\ closed = FALSE
    /\ closeErr = "nil"
    /\ cpc = [c \in Closers |-> "idle"]
    /\ calls = 0
    /\ returned = {}
    /\ bodyRuns = 0
    /\ cancelCalls = 0
    /\ removeCalls = 0
    /\ tmpLog = <<>>
    /\ prodPc = "unstarted"
    /\ port = 0
    /\ delivered = <<>>
    /\ cons = [c \in Consumers |-> "idle"]
    /\ consAfter = [c \in Consumers |-> FALSE]
    /\ consLog = <<>>
    /\ nextIP4 = <<0, 0, 0, 0>>
    /\ issued4 = <<>>

Init ==
    /\ lookPath \in [ToolSet -> LookResults]
    /\ Unbuilt
    /\ WaitInit
    /\ ToolInit
    /\ RaceInit

(***************************************************************************)
(* The environment.                                                        *)
(***************************************************************************)
\* the caller cancels the context it gave to New; a context derived from it
\* is cancelled with it
CancelParent ==
    /\ ~parentDone
    /\ parentDone' = TRUE
    /\ ctxDone' = (ctxMade \/ ctxDone)
    /\ UNCHANGED <<lookPath, newVars, ctxMade, fsVars, swtch, launched,
                   closeVars, calls, tmpLog, portVars, ipVars,
                   otherVars>>

\* vde_switch exits on its own (crash, external kill)
SwitchExit ==
    /\ swtch = "running"
    /\ swtch' = "exited"
    /\ UNCHANGED <<envVars, newVars, ctxMade, ctxDone, fsVars, launched,
                   closeVars, calls, tmpLog, portVars, ipVars,
                   otherVars>>

\* exec.CommandContext kills the process once its context is done
SwitchKill ==
    /\ swtch = "running"
    /\ ctxDone
    /\ swtch' = "exited"
    /\ UNCHANGED <<envVars, newVars, ctxMade, ctxDone, fsVars, launched,
                   closeVars, calls, tmpLog, portVars, ipVars,
                   otherVars>>

(***************************************************************************)
(* New (lines 63-122).                                                     *)
(***************************************************************************)
\* New going on whatever checkTools returns
NewCheckTools_Ignore ==
    /\ newPc = "checkTools"
    /\ newPc' = "tempDir"
    /\ UNCHANGED <<envVars, newRet, ctxMade, ctxDone, fsVars, swtch, launched,
                   closeVars, calls, tmpLog, portVars, ipVars,
                   otherVars>>

\* lines 64-66
NewCheckTools ==
    /\ newPc = "checkTools"
    /\ LET err == checkTools(lookPath, universeTools) IN
         IF err # NoErr
         THEN /\ newPc' = "failed"
              /\ newRet' = [u |-> FALSE, err |-> err]
         ELSE /\ newPc' = "tempDir"
              /\ UNCHANGED newRet
    /\ UNCHANGED <<envVars, ctxMade, ctxDone, fsVars, swtch, launched,
                   closeVars, calls, tmpLog, portVars, ipVars,
                   otherVars>>

\* lines 68-71: ioutil.TempDir("", "virtuakube") creates the workspace or fails
NewTempDir ==
    /\ newPc = "tempDir"
    /\ \/ /\ dirExists' = TRUE
          /\ newPc' = "withCancel"
          /\ UNCHANGED newRet
       \/ /\ newPc' = "failed"
          /\ newRet' = [u |-> FALSE, err |-> [kind |-> "io", tools |-> <<>>]]
          /\ UNCHANGED dirExists
    /\ UNCHANGED <<envVars, ctxMade, ctxDone, entries, swtch, launched,
                   closeVars, calls, tmpLog, portVars, ipVars,
                   otherVars>>

\* lines 73-92: the child context and the Universe value
NewWithCancel ==
    /\ newPc = "withCancel"
    /\ ctxMade' = TRUE
    /\ ctxDone' = parentDone
    /\ nextIP4' = FirstIP4
    /\ nextIP6' = FirstIP6
    /\ newPc' = "start"
    /\ UNCHANGED <<envVars, newRet, fsVars, swtch, launched, closeVars, calls,
                   tmpLog, portVars, issued4,
                   issued6, waitVars, toolVars, raceVars>>

\* New returning the spawn error without calling ret.Close()
NewStart_NoClose ==
    /\ newPc = "start"
    /\ \/ /\ ~ctxDone
          /\ swtch' = "running"
          /\ newPc' = "goA"
          /\ UNCHANGED cpc
       \/ /\ newPc' = "close"
          /\ cpc' = [cpc EXCEPT !["new"] = "done"]
          /\ UNCHANGED swtch
    /\ UNCHANGED <<envVars, newRet, ctxMade, ctxDone, fsVars, launched,
                   closeMu, closed, closeErr, returned, bodyRuns, cancelCalls,
                   removeCalls, calls, tmpLog, portVars, ipVars,
                   otherVars>>

\* lines 94-97: ret.swtch.Start(); it fails when the context is already done,
\* and may fail for reasons of its own
NewStart ==
    /\ newPc = "start"
    /\ \/ /\ ~ctxDone
          /\ swtch' = "running"
          /\ newPc' = "goA"
          /\ UNCHANGED cpc
       \/ /\ newPc' = "close"
          /\ cpc' = [cpc EXCEPT !["new"] = "lock"]
          /\ UNCHANGED swtch
    /\ UNCHANGED <<envVars, newRet, ctxMade, ctxDone, fsVars, launched,
                   closeMu, closed, closeErr, returned, bodyRuns, cancelCalls,
                   removeCalls, calls, tmpLog, portVars, ipVars,
                   otherVars>>

\* line 96: after ret.Close() has returned, return nil and the spawn error
NewReturnSpawnErr ==
    /\ newPc = "close"
    /\ cpc["new"] = "done"
    /\ newPc' = "failed"
    /\ newRet' = [u |-> FALSE, err |-> [kind |-> "spawn", tools |-> <<>>]]
    /\ UNCHANGED <<envVars, ctxMade, ctxDone, fsVars, swtch, launched,
                   closeVars, calls, tmpLog, portVars, ipVars,
                   otherVars>>

\* lines 99-103: go func() { ret.swtch.Wait(); ret.Close() }()
NewGoA ==
    /\ newPc = "goA"
    /\ launched' = launched \cup {"watchA"}
    /\ newPc' = "goB"
    /\ UNCHANGED <<envVars, newRet, ctxMade, ctxDone, fsVars, swtch,
                   closeVars, calls, tmpLog, portVars, ipVars,
                   otherVars>>

\* lines 105-108: go func() { <-ctx.Done(); ret.Close() }()
NewGoB ==
    /\ newPc = "goB"
    /\ launched' = launched \cup {"watchB"}
    /\ newPc' = "goC"
    /\ UNCHANGED <<envVars, newRet, ctxMade, ctxDone, fsVars, swtch,
                   closeVars, calls, tmpLog, portVars, ipVars,
                   otherVars>>

\* lines 109-110: the port goroutine starts with port := 50000
NewGoC ==
    /\ newPc = "goC"
    /\ launched' = launched \cup {"watchC"}
    /\ prodPc' = "select"
    /\ port' = FirstPort
    /\ newPc' = "return"
    /\ UNCHANGED <<envVars, newRet, ctxMade, ctxDone, fsVars, swtch,
                   closeVars, calls, tmpLog, delivered, cons, consAfter,
                   consLog, ipVars,
                   otherVars>>

\* line 121
NewReturn ==
    /\ newPc = "return"
    /\ newPc' = "returned"
    /\ newRet' = [u |-> TRUE, err |-> NoErr]
    /\ UNCHANGED <<envVars, ctxMade, ctxDone, fsVars, swtch, launched,
                   closeVars, calls, tmpLog, portVars, ipVars,
                   otherVars>>

\* the caller holds a Universe
HasHandle == newPc = "returned"

(***************************************************************************)
(* The watchers (lines 98-108).                                            *)
(***************************************************************************)
\* a watcher that wakes and returns without calling Close
WatchAWake_NoClose ==
    /\ "watchA" \in launched
    /\ cpc["watchA"] = "idle"
    /\ swtch = "exited"
    /\ cpc' = [cpc EXCEPT !["watchA"] = "done"]
    /\ UNCHANGED <<envVars, newVars, ctxMade, ctxDone, fsVars, swtch, launched,
                   closeMu, closed, closeErr, returned, bodyRuns, cancelCalls,
                   removeCalls, calls, tmpLog, portVars, ipVars,
                   otherVars>>

\* lines 100-102: ret.swtch.Wait() returns once the process has exited, then
\* the goroutine calls ret.Close()
WatchAWake ==
    /\ "watchA" \in launched
    /\ cpc["watchA"] = "idle"
    /\ swtch = "exited"
    /\ cpc' = [cpc EXCEPT !["watchA"] = "lock"]
    /\ UNCHANGED <<envVars, newVars, ctxMade, ctxDone, fsVars, swtch, launched,
                   closeMu, closed, closeErr, returned, bodyRuns, cancelCalls,
                   removeCalls, calls, tmpLog, portVars, ipVars,
                   otherVars>>

\* a watcher that waits on a context nobody cancels, and so never wakes
WatchBWake_Blocked ==
    /\ "watchB" \in launched
    /\ cpc["watchB"] = "idle"
    /\ FALSE
    /\ UNCHANGED vars

\* lines 106-107: ctx is the child context here (line 73 reassigns it), so
\* the receive completes once u.ctx is done, then the goroutine calls
\* ret.Close()
WatchBWake ==
    /\ "watchB" \in launched
    /\ cpc["watchB"] = "idle"
    /\ ctxDone
    /\ cpc' = [cpc EXCEPT !["watchB"] = "lock"]
    /\ UNCHANGED <<envVars, newVars, ctxMade, ctxDone, fsVars, swtch, launched,
                   closeMu, closed, closeErr, returned, bodyRuns, cancelCalls,
                   removeCalls, calls, tmpLog, portVars, ipVars,
                   otherVars>>

\* an explicit Close call by a goroutine that holds the Universe
UserClose(u) ==
    /\ HasHandle
    /\ cpc[u] \in {"idle", "done"}
    /\ calls < MaxCalls
    /\ calls' = calls + 1
    /\ cpc' = [cpc EXCEPT ![u] = "lock"]
    /\ UNCHANGED <<envVars, newVars, ctxMade, ctxDone, fsVars, swtch, launched,
                   closeMu, closed, closeErr, returned, bodyRuns, cancelCalls,
                   removeCalls, tmpLog, portVars, ipVars,
                   otherVars>>

(***************************************************************************)
(* Close (lines 143-155).                                                  *)
(***************************************************************************)
\* Close entering without waiting for the mutex
CloseLock_NoMutex(c) ==
    /\ cpc[c] = "lock"
    /\ closeMu' = c
    /\ cpc' = [cpc EXCEPT ![c] = "check"]
    /\ UNCHANGED <<envVars, newVars, ctxMade, ctxDone, fsVars, swtch, launched,
                   closed, closeErr, returned, bodyRuns, cancelCalls,
                   removeCalls, calls, tmpLog, portVars, ipVars,
                   otherVars>>

\* line 144: u.closeMu.Lock()
CloseLock(c) ==
    /\ cpc[c] = "lock"
    /\ closeMu = "free"
    /\ closeMu' = c
    /\ cpc' = [cpc EXCEPT ![c] = "check"]
    /\ UNCHANGED <<envVars, newVars, ctxMade, ctxDone, fsVars, swtch, launched,
                   closed, closeErr, returned, bodyRuns, cancelCalls,
                   removeCalls, calls, tmpLog, portVars, ipVars,
                   otherVars>>

\* Close without the test of u.closed
CloseCheck_NoFlag(c) ==
    /\ cpc[c] = "check"
    /\ cpc' = [cpc EXCEPT ![c] = "setClosed"]
    /\ UNCHANGED <<envVars, newVars, ctxMade, ctxDone, fsVars, swtch, launched,
                   closeMu, closed, closeErr, returned, bodyRuns, cancelCalls,
                   removeCalls, calls, tmpLog, portVars, ipVars,
                   otherVars>>

\* lines 146-148: if u.closed { return u.closeErr }, with the deferred Unlock
CloseCheck(c) ==
    /\ cpc[c] = "check"
    /\ IF closed
       THEN /\ returned' = returned \cup {closeErr}
            /\ closeMu' = "free"
            /\ cpc' = [cpc EXCEPT ![c] = "done"]
       ELSE /\ cpc' = [cpc EXCEPT ![c] = "setClosed"]
            /\ UNCHANGED <<returned, closeMu>>
    /\ UNCHANGED <<envVars, newVars, ctxMade, ctxDone, fsVars, swtch, launched,
                   closed, closeErr, bodyRuns, cancelCalls, removeCalls, calls,
                   tmpLog, portVars, ipVars,
                   otherVars>>

\* line 149: u.closed = true
CloseSetClosed(c) ==
    /\ cpc[c] = "setClosed"
    /\ closed' = TRUE
    /\ bodyRuns' = bodyRuns + 1
    /\ cpc' = [cpc EXCEPT ![c] = "shutdown"]
    /\ UNCHANGED <<envVars, newVars, ctxMade, ctxDone, fsVars, swtch, launched,
                   closeMu, closeErr, returned, cancelCalls, removeCalls, calls,
                   tmpLog, portVars, ipVars,
                   otherVars>>

\* a Close whose cancel function cancels the caller's context as well
CloseShutdown_CancelsParent(c) ==
    /\ cpc[c] = "shutdown"
    /\ ctxDone' = TRUE
    /\ parentDone' = TRUE
    /\ cancelCalls' = cancelCalls + 1
    /\ cpc' = [cpc EXCEPT ![c] = "remove"]
    /\ UNCHANGED <<lookPath, newVars, ctxMade, fsVars, swtch, launched, closeMu,
                   closed, closeErr, returned, bodyRuns, removeCalls, calls,
                   tmpLog, portVars, ipVars, otherVars>>

\* Close going on to the removal without calling u.shutdown()
CloseShutdown_Skipped(c) ==
    /\ cpc[c] = "shutdown"
    /\ cpc' = [cpc EXCEPT ![c] = "remove"]
    /\ UNCHANGED <<envVars, newVars, ctxMade, ctxDone, fsVars, swtch, launched,
                   closeMu, closed, closeErr, returned, bodyRuns, cancelCalls,
                   removeCalls, calls, tmpLog, portVars, ipVars, otherVars>>

\* line 151: u.shutdown()
CloseShutdown(c) ==
    /\ cpc[c] = "shutdown"
    /\ ctxDone' = TRUE
    /\ cancelCalls' = cancelCalls + 1
    /\ cpc' = [cpc EXCEPT ![c] = "remove"]
    /\ UNCHANGED <<envVars, newVars, ctxMade, fsVars, swtch, launched, closeMu,
                   closed, closeErr, returned, bodyRuns, removeCalls, calls,
                   tmpLog, portVars, ipVars,
                   otherVars>>

\* line 153, first half: os.RemoveAll(u.tmpdir) returns nil when the path is
\* already gone, fails on an I/O error, and otherwise deletes what it finds
\* inside the directory
CloseRemoveContents(c) ==
    /\ cpc[c] = "remove"
    /\ IF ~dirExists
       THEN /\ closeErr' = "nil"
            /\ removeCalls' = removeCalls + 1
            /\ cpc' = [cpc EXCEPT ![c] = "ret"]
            /\ UNCHANGED entries
       ELSE \/ /\ closeErr' = "EIO"
               /\ removeCalls' = removeCalls + 1
               /\ cpc' = [cpc EXCEPT ![c] = "ret"]
               /\ UNCHANGED entries
            \/ /\ entries' = {}
               /\ cpc' = [cpc EXCEPT ![c] = "rmdir"]
               /\ UNCHANGED <<closeErr, removeCalls>>
    /\ UNCHANGED <<envVars, newVars, ctxMade, ctxDone, dirExists, swtch,
                   launched, closeMu, closed, returned, bodyRuns, cancelCalls,
                   calls, tmpLog, portVars, ipVars,
                   otherVars>>

\* line 153, second half: RemoveAll removes the directory itself, which
\* fails when something was created inside it meanwhile; the result is
\* stored in u.closeErr
CloseRmdir(c) ==
    /\ cpc[c] = "rmdir"
    /\ IF entries = {}
       THEN /\ dirExists' = FALSE
            /\ closeErr' = "nil"
       ELSE /\ closeErr' = "ENOTEMPTY"
            /\ UNCHANGED dirExists
    /\ removeCalls' = removeCalls + 1
    /\ cpc' = [cpc EXCEPT ![c] = "ret"]
    /\ UNCHANGED <<envVars, newVars, ctxMade, ctxDone, entries, swtch,
                   launched, closeMu, closed, returned, bodyRuns, cancelCalls,
                   calls, tmpLog, portVars, ipVars,
                   otherVars>>

\* line 154: return u.closeErr, with the deferred Unlock
CloseReturn(c) ==
    /\ cpc[c] = "ret"
    /\ returned' = returned \cup {closeErr}
    /\ closeMu' = "free"
    /\ cpc' = [cpc EXCEPT ![c] = "done"]
    /\ UNCHANGED <<envVars, newVars, ctxMade, ctxDone, fsVars, swtch, launched,
                   closed, closeErr, bodyRuns, cancelCalls, removeCalls, calls,
                   tmpLog, portVars, ipVars,
                   otherVars>>

(***************************************************************************)
(* Tmpdir (lines 127-133).                                                 *)
(***************************************************************************)
TmpPath(prefix, s) == [parent |-> "tmpdir", prefix |-> prefix, suffix |-> s]

\* ioutil.TempDir(u.tmpdir, prefix): one Mkdir of a name that is not there
\* yet; it fails when the workspace is gone or on an I/O error
Tmpdir(prefix) ==
    /\ HasHandle
    /\ Len(tmpLog) < MaxTmpdirs
    /\ \/ /\ dirExists
          /\ \E s \in Suffixes :
               /\ TmpPath(prefix, s) \notin entries
               /\ entries' = entries \cup {TmpPath(prefix, s)}
               /\ tmpLog' = Append(tmpLog, [ok |-> TRUE, path |-> TmpPath(prefix, s)])
       \/ /\ tmpLog' = Append(tmpLog, [ok |-> FALSE, path |-> TmpPath(prefix, 0)])
          /\ UNCHANGED entries
    /\ UNCHANGED <<envVars, newVars, ctxMade, ctxDone, dirExists, swtch,
                   launched, closeVars, calls, portVars, ipVars,
                   otherVars>>

(***************************************************************************)
(* The port channel (lines 81, 109-119) and its consumers.                 *)
(***************************************************************************)
Attempts == Len(consLog) + Cardinality({c \in Consumers : cons[c] = "recv"})

\* a consumer starts to receive from u.ports
ConsRecv(c) ==
    /\ HasHandle
    /\ cons[c] = "idle"
    /\ Attempts < MaxPorts
    /\ cons' = [cons EXCEPT ![c] = "recv"]
    /\ consAfter' = [consAfter EXCEPT ![c] = parentDone]
    /\ UNCHANGED <<envVars, newVars, ctxMade, ctxDone, fsVars, swtch, launched,
                   closeVars, calls, tmpLog, prodPc, port, delivered, consLog,
                   ipVars,
                   otherVars>>

\* line 113: the send case of the select meets a waiting receiver; the select
\* may take it whether or not ctx.Done() is ready too
ProdSend(c) ==
    /\ prodPc = "select"
    /\ cons[c] = "recv"
    /\ delivered' = Append(delivered, port)
    /\ consLog' = Append(consLog, [c |-> c, ok |-> TRUE, v |-> port,
                                   after |-> consAfter[c], done |-> ctxDone])
    /\ cons' = [cons EXCEPT ![c] = "idle"]
    /\ prodPc' = "inc"
    /\ UNCHANGED <<envVars, newVars, ctxMade, ctxDone, fsVars, swtch, launched,
                   closeVars, calls, tmpLog, port, consAfter, ipVars,
                   otherVars>>

\* a producer that offers the same value again
ProdInc_Same ==
    /\ prodPc = "inc"
    /\ prodPc' = "select"
    /\ UNCHANGED <<envVars, newVars, ctxMade, ctxDone, fsVars, swtch, launched,
                   closeVars, calls, tmpLog, port, delivered, cons, consAfter,
                   consLog, ipVars,
                   otherVars>>

\* line 114: port++
ProdInc ==
    /\ prodPc = "inc"
    /\ port' = port + 1
    /\ prodPc' = "select"
    /\ UNCHANGED <<envVars, newVars, ctxMade, ctxDone, fsVars, swtch, launched,
                   closeVars, calls, tmpLog, delivered, cons, consAfter,
                   consLog, ipVars,
                   otherVars>>

\* a port goroutine that sees ctx.Done() and goes round its loop again
ProdDone_Loops ==
    /\ prodPc = "select"
    /\ ctxDone
    /\ UNCHANGED vars

\* lines 115-116: case <-ctx.Done(): return
ProdDone ==
    /\ prodPc = "select"
    /\ ctxDone
    /\ prodPc' = "done"
    /\ UNCHANGED <<envVars, newVars, ctxMade, ctxDone, fsVars, swtch, launched,
                   closeVars, calls, tmpLog, port, delivered, cons, consAfter,
                   consLog, ipVars,
                   otherVars>>

\* the consumer's receive gives up once the lifetime context has ended
ConsNotOk(c) ==
    /\ cons[c] = "recv"
    /\ ctxDone
    /\ consLog' = Append(consLog, [c |-> c, ok |-> FALSE, v |-> 0,
                                   after |-> consAfter[c], done |-> TRUE])
    /\ cons' = [cons EXCEPT ![c] = "idle"]
    /\ UNCHANGED <<envVars, newVars, ctxMade, ctxDone, fsVars, swtch, launched,
                   closeVars, calls, tmpLog, prodPc, port, delivered, consAfter,
                   ipVars,
                   otherVars>>

(***************************************************************************)
(* The specification of the lifecycle: construction, the triggers of       *)
(* teardown, Close and Tmpdir.  Nobody receives from u.ports here, so of   *)
(* the port goroutine only its exit can happen.                            *)
(***************************************************************************)
Next ==
    \/ CancelParent
    \/ SwitchExit
    \/ SwitchKill
    \/ NewCheckTools
    \/ NewTempDir
    \/ NewWithCancel
    \/ NewStart
    \/ NewReturnSpawnErr
    \/ NewGoA
    \/ NewGoB
    \/ NewGoC
    \/ NewReturn
    \/ WatchAWake
    \/ WatchBWake
    \/ \E u \in Users : UserClose(u)
    \/ \E c \in Closers : CloseLock(c)
    \/ \E c \in Closers : CloseCheck(c)
    \/ \E c \in Closers : CloseSetClosed(c)
    \/ \E c \in Closers : CloseShutdown(c)
    \/ \E c \in Closers : CloseRemoveContents(c)
    \/ \E c \in Closers : CloseRmdir(c)
    \/ \E c \in Closers : CloseReturn(c)
    \/ \E p \in Prefixes : Tmpdir(p)
    \/ ProdDone

Spec == Init /\ [][Next]_vars

\* what the scheduler guarantees: a goroutine that can take its next step
\* takes it; the caller's cancel, the crash of vde_switch, explicit Close
\* calls and Tmpdir calls may never happen
NewStep ==
    \/ NewCheckTools
    \/ NewTempDir
    \/ NewWithCancel
    \/ NewStart
    \/ NewReturnSpawnErr
    \/ NewGoA
    \/ NewGoB
    \/ NewGoC
    \/ NewReturn

CloseStep(c) ==
    \/ CloseLock(c)
    \/ CloseCheck(c)
    \/ CloseSetClosed(c)
    \/ CloseShutdown(c)
    \/ CloseRemoveContents(c)
    \/ CloseRmdir(c)
    \/ CloseReturn(c)

Fairness ==
    /\ WF_vars(NewStep)
    /\ WF_vars(SwitchKill)
    /\ WF_vars(WatchAWake)
    /\ WF_vars(WatchBWake)
    /\ WF_vars(ProdDone)
    /\ \A c \in Closers : WF_vars(CloseStep(c))

FairSpec == Spec /\ Fairness

(***************************************************************************)
(* The specification of the port stream: the state right after a           *)
(* successful New, the triggers of teardown that need no caller (the       *)
(* parent's cancel, the exit of vde_switch), and the consumers.            *)
(***************************************************************************)
\* the state New leaves behind when it succeeds (lines 77-121), before
\* anything else has happened
Built ==
    /\ lookPath = [t \in ToolSet |-> "found"]
    /\ nextIP6 = FirstIP6
    /\ issued6 = <<>>
    /\ newPc = "returned"
    /\ newRet = [u |-> TRUE, err |-> NoErr]
    /\ parentDone = FALSE
    /\ ctxMade = TRUE
    /\ ctxDone = FALSE
    /\ dirExists = TRUE
    /\ entries = {}
    /\ swtch = "running"
    /\ launched = {"watchA", "watchB", "watchC"}
    /\ closeMu = "free"
    /\ closed = FALSE
    /\ closeErr = "nil"
    /\ cpc = [c \in Closers |-> "idle"]
    /\ calls = 0
    /\ returned = {}
    /\ bodyRuns = 0
    /\ cancelCalls = 0
    /\ removeCalls = 0
    /\ tmpLog = <<>>
    /\ prodPc = "select"
    /\ port = FirstPort
    /\ delivered = <<>>
    /\ cons = [c \in Consumers |-> "idle"]
    /\ consAfter = [c \in Consumers |-> FALSE]
    /\ consLog = <<>>
    /\ nextIP4 = FirstIP4
    /\ issued4 = <<>>

InitPorts ==
    /\ Built
    /\ WaitInit
    /\ ToolInit
    /\ RaceInit

NextPorts ==
    \/ CancelParent
    \/ SwitchExit
    \/ SwitchKill
    \/ WatchAWake
    \/ WatchBWake
    \/ \E c \in Closers : CloseLock(c)
    \/ \E c \in Closers : CloseCheck(c)
    \/ \E c \in Closers : CloseSetClosed(c)
    \/ \E c \in Closers : CloseShutdown(c)
    \/ \E c \in Closers : CloseRemoveContents(c)
    \/ \E c \in Closers : CloseRmdir(c)
    \/ \E c \in Closers : CloseReturn(c)
    \/ \E c \in Consumers : ConsRecv(c)
    \/ \E c \in Consumers : ProdSend(c)
    \/ ProdInc
    \/ ProdDone
    \/ \E c \in Consumers : ConsNotOk(c)

SpecPorts == InitPorts /\ [][NextPorts]_vars

\* the goroutines of the port specification take the steps they can take;
\* the select of the port goroutine picks among its ready cases at random,
\* so the ctx.Done() case is not passed over for ever
FairnessPorts ==
    /\ WF_vars(SwitchKill)
    /\ WF_vars(WatchAWake)
    /\ WF_vars(WatchBWake)
    /\ WF_vars(ProdInc)
    /\ WF_vars(ProdDone)
    /\ \A c \in Closers : WF_vars(CloseStep(c))
    /\ \A c \in Consumers : WF_vars(ConsNotOk(c))

FairSpecPorts == SpecPorts /\ FairnessPorts

(***************************************************************************)
(* ipv4 (lines 175-181) and the specification of sequential allocation.    *)
(***************************************************************************)
\* an increment that carries into the preceding byte when the last one wraps
Ipv4Advance_Carry(ip) ==
    IF ip[4] + 1 = ByteMod
    THEN [ip EXCEPT ![4] = 0, ![3] = (@ + 1) % ByteMod]
    ELSE [ip EXCEPT ![4] = @ + 1]

\* lines 177-179: a fresh copy of the cursor with its last byte incremented
Ipv4Advance(ip) == [ip EXCEPT ![4] = (@ + 1) % ByteMod]

\* ipv4 incrementing the cursor in place, so that the slice it returns
\* shows the incremented address
ipv4_InPlace ==
    /\ HasHandle
    /\ Len(issued4) < MaxAllocs
    /\ issued4' = Append(issued4, Ipv4Advance(nextIP4))
    /\ nextIP4' = Ipv4Advance(nextIP4)
    /\ UNCHANGED <<envVars, newVars, ctxMade, ctxDone, fsVars, swtch, launched,
                   closeVars, calls, tmpLog, portVars,
                   otherVars>>

\* one whole call of ipv4, the calls being serialized by the caller
ipv4 ==
    /\ HasHandle
    /\ Len(issued4) < MaxAllocs
    /\ issued4' = Append(issued4, nextIP4)
    /\ nextIP4' = Ipv4Advance(nextIP4)
    /\ UNCHANGED <<envVars, newVars, ctxMade, ctxDone, fsVars, swtch, launched,
                   closeVars, calls, tmpLog, portVars,
                   otherVars>>

\* lines 185-187: a fresh copy of the cursor with its last byte incremented
Ipv6Advance(ip) == [ip EXCEPT ![16] = (@ + 1) % ByteMod]

\* one whole call of ipv6 (lines 183-189), the calls being serialized
ipv6 ==
    /\ HasHandle
    /\ Len(issued6) < MaxAllocs
    /\ issued6' = Append(issued6, nextIP6)
    /\ nextIP6' = Ipv6Advance(nextIP6)
    /\ UNCHANGED <<coreVars, ipVars, waitVars, toolVars, raceVars>>

InitIP == InitPorts

NextIP == ipv4

SpecIP == InitIP /\ [][NextIP]_vars

\* serialized allocation in both address families
NextIP46 ==
    \/ ipv4
    \/ ipv6

SpecIP46 == InitIP /\ [][NextIP46]_vars

(***************************************************************************)
(* checkTools (lines 24-40) called on its own with any list of tools.      *)
(***************************************************************************)
\* the lists of at most n tools
ToolLists(n) == UNION {[1..k -> ToolSet] : k \in 0..n}

\* one call checkTools(toolsIn)
CheckToolsCall ==
    /\ toolsOut = NoResult
    /\ toolsOut' = checkTools(lookPath, toolsIn)
    /\ UNCHANGED <<coreVars, ipVars, ip6Vars, waitVars, toolsIn, raceVars>>

InitTools ==
    /\ lookPath \in [ToolSet -> LookResults]
    /\ toolsIn \in ToolLists(MaxTools)
    /\ toolsOut = NoResult
    /\ Unbuilt
    /\ WaitInit
    /\ RaceInit

NextTools == CheckToolsCall

SpecTools == InitTools /\ [][NextTools]_vars

(***************************************************************************)
(* ipv4 (lines 175-181) line by line, called by goroutines that do not     *)
(* serialize their calls.  net.IP is a slice, so u.nextIP4 and ret are     *)
(* references to byte arrays: heap holds the arrays, cursor is u.nextIP4,  *)
(* and nextIP4 follows the contents of the array cursor refers to.         *)
(***************************************************************************)
\* the ipv4 calls begun so far
RaceCalls == Len(rlog) + Cardinality({r \in Racers : rpc[r] # "idle"})

\* a goroutine calls u.ipv4(); nothing stops it while another call runs
RaceCall(r) ==
    /\ HasHandle
    /\ rpc[r] = "idle"
    /\ RaceCalls < MaxRaceCalls
    /\ rpc' = [rpc EXCEPT ![r] = "l176"]
    /\ overlapped' = (overlapped \/ \E o \in Racers \ {r} : rpc[o] # "idle")
    /\ UNCHANGED <<coreVars, ipVars, ip6Vars, waitVars, toolVars, heap, cursor,
                   rret, rlog>>

\* line 176: ret := u.nextIP4
Race176(r) ==
    /\ rpc[r] = "l176"
    /\ rret' = [rret EXCEPT ![r] = cursor]
    /\ rpc' = [rpc EXCEPT ![r] = "l177"]
    /\ UNCHANGED <<coreVars, ipVars, ip6Vars, waitVars, toolVars, heap, cursor,
                   rlog, overlapped>>

\* line 177: u.nextIP4 = make(net.IP, 4)
Race177(r) ==
    /\ rpc[r] = "l177"
    /\ heap' = Append(heap, <<0, 0, 0, 0>>)
    /\ cursor' = Len(heap) + 1
    /\ nextIP4' = <<0, 0, 0, 0>>
    /\ rpc' = [rpc EXCEPT ![r] = "l178"]
    /\ UNCHANGED <<coreVars, issued4, ip6Vars, waitVars, toolVars, rret, rlog,
                   overlapped>>

\* line 178: copy(u.nextIP4, ret)
Race178(r) ==
    /\ rpc[r] = "l178"
    /\ heap' = [heap EXCEPT ![cursor] = heap[rret[r]]]
    /\ nextIP4' = heap[rret[r]]
    /\ rpc' = [rpc EXCEPT ![r] = "l179"]
    /\ UNCHANGED <<coreVars, issued4, ip6Vars, waitVars, toolVars, cursor, rret,
                   rlog, overlapped>>

\* line 179 left out: the cursor is copied and never incremented
Race179_NoInc(r) ==
    /\ rpc[r] = "l179"
    /\ rpc' = [rpc EXCEPT ![r] = "l180"]
    /\ UNCHANGED <<coreVars, ipVars, ip6Vars, waitVars, toolVars, heap, cursor,
                   rret, rlog, overlapped>>

\* line 179: u.nextIP4[3]++
Race179(r) ==
    /\ rpc[r] = "l179"
    /\ heap' = [heap EXCEPT ![cursor] = Ipv4Advance(heap[cursor])]
    /\ nextIP4' = Ipv4Advance(heap[cursor])
    /\ rpc' = [rpc EXCEPT ![r] = "l180"]
    /\ UNCHANGED <<coreVars, issued4, ip6Vars, waitVars, toolVars, cursor, rret,
                   rlog, overlapped>>

\* line 180: return ret; the caller reads the address it was given
Race180(r) ==
    /\ rpc[r] = "l180"
    /\ rlog' = Append(rlog, heap[rret[r]])
    /\ rpc' = [rpc EXCEPT ![r] = "idle"]
    /\ UNCHANGED <<coreVars, ipVars, ip6Vars, waitVars, toolVars, heap, cursor,
                   rret, overlapped>>

\* the Universe New returned, u.nextIP4 referring to the array of line 82
InitIPRace ==
    /\ Built
    /\ WaitInit
    /\ ToolInit
    /\ heap = <<FirstIP4>>
    /\ cursor = 1
    /\ rpc = [r \in Racers |-> "idle"]
    /\ rret = [r \in Racers |-> 0]
    /\ rlog = <<>>
    /\ overlapped = FALSE

NextIPRace ==
    \/ \E r \in Racers : RaceCall(r)
    \/ \E r \in Racers : Race176(r)
    \/ \E r \in Racers : Race177(r)
    \/ \E r \in Racers : Race178(r)
    \/ \E r \in Racers : Race179(r)
    \/ \E r \in Racers : Race180(r)

SpecIPRace == InitIPRace /\ [][NextIPRace]_vars

(***************************************************************************)
(* Properties.                                                             *)
(***************************************************************************)
Range(q) == {q[i] : i \in 1..Len(q)}

\* C1: every Close call, whoever issues it, returns the outcome the cleanup
\* body recorded in u.closeErr (so all calls return the same value), no call
\* returns before that outcome is recorded, and once recorded the outcome
\* never changes.
C1_CloseSameResult ==
    /\ [](/\ returned \subseteq {closeErr}
          /\ returned # {} => removeCalls >= 1)
    /\ [][removeCalls >= 1 => closeErr' = closeErr]_vars

\* Close calls of three goroutines have returned a removal error
C1_Witness ==
    /\ calls = 2
    /\ cpc["user1"] = "done"
    /\ cpc["user2"] = "done"
    /\ cpc["watchB"] = "done"
    /\ returned = {"ENOTEMPTY"}

\* C2: the cleanup body (u.closed = true, u.shutdown(), os.RemoveAll) runs
\* at most once, and it has run exactly once whenever a Close call has
\* returned, also with the explicit call and both watchers inside Close.
C2_BodyOnce ==
    /\ bodyRuns <= 1
    /\ cancelCalls <= 1
    /\ removeCalls <= 1
    /\ returned # {} => (bodyRuns = 1 /\ cancelCalls = 1 /\ removeCalls = 1)

\* the explicit call has finished the body while both watchers wait for the
\* mutex
C2_Witness ==
    /\ cpc["user1"] = "ret"
    /\ cpc["watchA"] = "lock"
    /\ cpc["watchB"] = "lock"
    /\ bodyRuns = 1

\* C3: no leaked files however the universe ends, Tmpdir calls running
\* concurrently with teardown included: once teardown's removal has finished
\* without an I/O fault of the filesystem, the workspace no longer exists.
C3_NoLeakedFiles ==
    (removeCalls >= 1 /\ closeErr # "EIO") => ~dirExists

\* C4: once vde_switch has exited after a successful Start, the universe
\* eventually is closed: u.closed is set, u.ctx is cancelled and RemoveAll
\* has been performed, whether or not anybody calls Close.
C4_SwitchExitCloses ==
    (swtch = "exited") ~> (closed /\ ctxDone /\ removeCalls >= 1)

\* the switch-exit watcher alone ran teardown: no cancel, no explicit call
C4_Witness ==
    /\ cpc["watchA"] = "done"
    /\ cpc["watchB"] = "idle"
    /\ ~parentDone
    /\ calls = 0
    /\ closed
    /\ ctxDone
    /\ removeCalls = 1

\* C5: once the parent context is cancelled after a successful Start, the
\* cancellation watcher eventually has called Close and that call has
\* returned, with u.ctx cancelled, u.closed set and RemoveAll performed.
C5_ParentCancelCloses ==
    (parentDone /\ swtch # "unstarted")
        ~> (cpc["watchB"] = "done" /\ closed /\ ctxDone /\ removeCalls >= 1)

\* the cancellation watcher ran the cleanup body itself, without any
\* explicit Close call
C5_Witness ==
    /\ parentDone
    /\ cpc["watchB"] = "ret"
    /\ cpc["watchA"] \in {"idle", "lock"}
    /\ calls = 0
    /\ removeCalls = 1

\* C6: a receive from the port stream that begins after the parent context
\* was cancelled never completes with a value: it ends not-ok.
C6_NotOkAfterCancel ==
    \A i \in 1..Len(consLog) : consLog[i].after => ~consLog[i].ok

\* C7: the k-th value delivered is 50000 + k - 1, the producer's counter is
\* ahead of the first port by exactly the number of values it has delivered
\* and counted, and no two receives got the same value.
C7_PortSequence ==
    /\ \A k \in 1..Len(delivered) : delivered[k] = FirstPort + k - 1
    /\ prodPc \in {"select", "done"} => port = FirstPort + Len(delivered)
    /\ prodPc = "inc" => port = FirstPort + Len(delivered) - 1
    /\ \A i, j \in 1..Len(consLog) :
         (i # j /\ consLog[i].ok /\ consLog[j].ok) => consLog[i].v # consLog[j].v

\* MaxPorts values were delivered, to both consumers
C7_Witness ==
    /\ Len(delivered) = MaxPorts
    /\ \E i, j \in 1..Len(consLog) :
         /\ consLog[i].ok
         /\ consLog[j].ok
         /\ consLog[i].c # consLog[j].c

\* Start has failed and New has returned
SpawnFailed == newPc = "failed" /\ ctxMade

\* C8 as stated: after a failed Start, New returns no handle and the spawn
\* error, the workspace directory is removed, the child context is
\* cancelled and no goroutine was launched.
C8_SpawnFailureRemoves ==
    SpawnFailed =>
        /\ ~newRet.u
        /\ newRet.err.kind = "spawn"
        /\ ~dirExists
        /\ ctxDone
        /\ launched = {}

\* C8 as amended: after a failed Start, New has run Close to its end before
\* returning, returns no handle and the spawn error, the child context is
\* cancelled, no goroutine was launched, and RemoveAll has been performed
\* once: the workspace is gone unless RemoveAll itself failed, and that
\* failure is what u.closeErr holds, not what New returns.
C8_SpawnFailureTeardown ==
    SpawnFailed =>
        /\ ~newRet.u
        /\ newRet.err.kind = "spawn"
        /\ cpc["new"] = "done"
        /\ bodyRuns = 1
        /\ removeCalls = 1
        /\ ctxDone
        /\ launched = {}
        /\ prodPc = "unstarted"
        /\ swtch = "unstarted"
        /\ dirExists <=> closeErr # "nil"

\* New returned the spawn error with the workspace removed
C8_Witness ==
    /\ SpawnFailed
    /\ newRet.err.kind = "spawn"
    /\ ~dirExists
    /\ closeErr = "nil"
    /\ ~parentDone

Absent == {t \in ToolSet : lookPath[t] = "notfound"}
LookupFails == {t \in ToolSet : lookPath[t] = "error"}
NothingCreated ==
    /\ ~dirExists
    /\ ~ctxMade
    /\ swtch = "unstarted"
    /\ launched = {}
    /\ prodPc = "unstarted"

\* C9 as stated: when a required tool is absent, New fails with the
\* missing-dependency error naming it, and nothing was created.
C9_MissingToolNamed ==
    (Absent # {} /\ newPc # "checkTools") =>
        /\ newPc = "failed"
        /\ ~newRet.u
        /\ newRet.err.kind = "missing"
        /\ Absent \subseteq Range(newRet.err.tools)
        /\ NothingCreated

\* C9 as amended: when a required tool is absent, New fails before any
\* resource is created; the error is the missing-dependency error naming
\* every absent tool provided no tool's lookup fails with another error.
C9_MissingToolFails ==
    (Absent # {} /\ newPc # "checkTools") =>
        /\ newPc = "failed"
        /\ ~newRet.u
        /\ newRet.err # NoErr
        /\ NothingCreated
        /\ LookupFails = {} =>
             /\ newRet.err.kind = "missing"
             /\ Range(newRet.err.tools) = Absent

\* New has failed on two absent tools
C9_Witness ==
    /\ Cardinality(Absent) = 2
    /\ LookupFails = {}
    /\ newPc = "failed"
    /\ newRet.err.kind = "missing"
    /\ Len(newRet.err.tools) = 2

\* the first n addresses issued start at 172.20.0.1, each exceeds the one
\* before it by one in the last octet and by nothing elsewhere, and no two
\* are equal
Consecutive(n) ==
    /\ n >= 1 => issued4[1] = FirstIP4
    /\ \A k \in 2..n :
         /\ issued4[k][4] = issued4[k - 1][4] + 1
         /\ \A b \in 1..3 : issued4[k][b] = issued4[k - 1][b]
    /\ \A i, j \in 1..n : i # j => issued4[i] # issued4[j]

Min(a, b) == IF a < b THEN a ELSE b

\* C10 as stated: for every N, N sequential ipv4 calls return addresses that
\* start at 172.20.0.1, grow by one in the last octet and are distinct.
C10_AllConsecutive == Consecutive(Len(issued4))

\* C10 as amended: the same for every N up to 255, the number of addresses
\* from 172.20.0.1 to 172.20.0.255.
C10_ConsecutiveBelowWrap == Consecutive(Min(Len(issued4), ByteMod - 1))

\* 255 addresses have been issued, the last one 172.20.0.255
C10_Witness ==
    /\ Len(issued4) = ByteMod - 1
    /\ issued4[Len(issued4)] = <<172, 20, 0, ByteMod - 1>>

(***************************************************************************)
(* Wait (lines 158-165) and its specification: the state right after a     *)
(* successful New, every trigger of teardown, Close, and one goroutine     *)
(* that calls Wait.                                                        *)
(***************************************************************************)
\* u.Wait(ctx) is called with a context that is already done or not, and
\* blocks in its select
WaitCall(cd) ==
    /\ HasHandle
    /\ waitPc = "idle"
    /\ Len(waitLog) < MaxWaits
    /\ waitPc' = "blocked"
    /\ waitCtxDone' = cd
    /\ UNCHANGED <<coreVars, ipVars, ip6Vars, waitLog, toolVars, raceVars>>

\* the context given to Wait times out or is cancelled
WaitCtxCancel ==
    /\ waitPc = "blocked"
    /\ ~waitCtxDone
    /\ waitCtxDone' = TRUE
    /\ UNCHANGED <<coreVars, ipVars, ip6Vars, waitPc, waitLog, toolVars,
                   raceVars>>

\* lines 160-161: case <-u.ctx.Done(): return nil
WaitReturnNil ==
    /\ waitPc = "blocked"
    /\ ctxDone
    /\ waitLog' = Append(waitLog, [ret |-> "nil", uDone |-> ctxDone,
                                   cDone |-> waitCtxDone])
    /\ waitPc' = "idle"
    /\ UNCHANGED <<coreVars, ipVars, ip6Vars, waitCtxDone, toolVars, raceVars>>

\* a Wait that answers nil when the caller's context ends
WaitReturnTimeout_Nil ==
    /\ waitPc = "blocked"
    /\ waitCtxDone
    /\ waitLog' = Append(waitLog, [ret |-> "nil", uDone |-> ctxDone,
                                   cDone |-> waitCtxDone])
    /\ waitPc' = "idle"
    /\ UNCHANGED <<coreVars, ipVars, ip6Vars, waitCtxDone, toolVars, raceVars>>

\* lines 162-163: case <-ctx.Done(): return errors.New("timeout")
WaitReturnTimeout ==
    /\ waitPc = "blocked"
    /\ waitCtxDone
    /\ waitLog' = Append(waitLog, [ret |-> "timeout", uDone |-> ctxDone,
                                   cDone |-> waitCtxDone])
    /\ waitPc' = "idle"
    /\ UNCHANGED <<coreVars, ipVars, ip6Vars, waitCtxDone, toolVars, raceVars>>

InitWait == InitPorts

NextWait ==
    \/ CancelParent
    \/ SwitchExit
    \/ SwitchKill
    \/ WatchAWake
    \/ WatchBWake
    \/ \E u \in Users : UserClose(u)
    \/ \E c \in Closers : CloseLock(c)
    \/ \E c \in Closers : CloseCheck(c)
    \/ \E c \in Closers : CloseSetClosed(c)
    \/ \E c \in Closers : CloseShutdown(c)
    \/ \E c \in Closers : CloseRemoveContents(c)
    \/ \E c \in Closers : CloseRmdir(c)
    \/ \E c \in Closers : CloseReturn(c)
    \/ \E cd \in BOOLEAN : WaitCall(cd)
    \/ WaitCtxCancel
    \/ WaitReturnNil
    \/ WaitReturnTimeout

SpecWait == InitWait /\ [][NextWait]_vars

\* C11: Wait returns nil only when u.ctx is done and the timeout error only
\* when the caller's context is done, it does not return while neither is
\* done, and no step of Wait changes anything of the Universe (u.ctx,
\* u.closed, u.closeErr, the workspace, the switch, the goroutines).
C11_WaitObserves ==
    /\ [](\A i \in 1..Len(waitLog) :
            /\ waitLog[i].ret = "nil" => waitLog[i].uDone
            /\ waitLog[i].ret = "timeout" => waitLog[i].cDone)
    /\ [][(waitPc = "blocked" /\ waitPc' = "idle") => (ctxDone \/ waitCtxDone)]_vars
    /\ [][waitVars' # waitVars => UNCHANGED coreVars]_vars

\* one Wait call has timed out while the universe was alive, another has
\* returned nil after its end
C11_Witness ==
    /\ Len(waitLog) = 2
    /\ waitLog[1].ret = "timeout"
    /\ ~waitLog[1].uDone
    /\ waitLog[2].ret = "nil"
    /\ ~waitLog[2].cDone

\* C12: every successful Tmpdir call returns a path directly under the
\* workspace root, and no two successful calls on one Universe return the
\* same path.
C12_DistinctPaths ==
    /\ \A i \in 1..Len(tmpLog) : tmpLog[i].ok => tmpLog[i].path.parent = "tmpdir"
    /\ \A i, j \in 1..Len(tmpLog) :
         (i # j /\ tmpLog[i].ok /\ tmpLog[j].ok) => tmpLog[i].path # tmpLog[j].path

\* os.RemoveAll has begun or finished
RemovalBegun == removeCalls >= 1 \/ \E c \in Closers : cpc[c] \in {"rmdir", "ret"}

\* C13: whenever os.RemoveAll has begun or finished, u.ctx is already
\* cancelled; when the removal has failed (the workspace is still there
\* after it) the failure is what u.closeErr holds, u.closed is set and u.ctx
\* is cancelled; and u.ctx, once cancelled, stays cancelled.
C13_CancelBeforeRemove ==
    /\ [](RemovalBegun => (ctxDone /\ closed))
    /\ []((removeCalls >= 1 /\ dirExists) =>
            (closeErr \in {"EIO", "ENOTEMPTY"} /\ closed /\ ctxDone))
    /\ [][ctxDone => ctxDone']_vars

\* the removal has failed and Close has returned the failure
C13_Witness ==
    /\ removeCalls = 1
    /\ dirExists
    /\ closeErr = "EIO"
    /\ returned = {"EIO"}
    /\ ~parentDone

\* C14: no value is handed to a consumer while u.ctx is already cancelled.
C14_NoDeliveryAfterDone ==
    \A i \in 1..Len(consLog) : consLog[i].ok => ~consLog[i].done

\* C15: once u.ctx is cancelled the port goroutine eventually returns,
\* whether or not consumers go on receiving, and having returned it never
\* runs again.
C15_ProducerTerminates ==
    /\ ctxDone ~> (prodPc = "done")
    /\ [][prodPc = "done" => prodPc' = "done"]_vars

\* the port goroutine has returned after delivering a value with u.ctx
\* already cancelled and with a consumer still waiting
C15_Witness ==
    /\ prodPc = "done"
    /\ \E i \in 1..Len(consLog) : consLog[i].ok /\ consLog[i].done
    /\ \E c \in Consumers : cons[c] = "recv"

\* a goroutine is inside the cleanup body of Close
InBody(c) == cpc[c] \in {"setClosed", "shutdown", "remove", "rmdir"}

\* C16: whenever a Close call has returned, whoever made it, u.ctx is
\* cancelled, os.RemoveAll has finished with its outcome in u.closeErr, and
\* no goroutine is still inside the cleanup body.
C16_ReturnAfterCleanup ==
    returned # {} =>
        /\ ctxDone
        /\ closed
        /\ removeCalls = 1
        /\ returned = {closeErr}
        /\ \A c \in Closers : ~InBody(c)

\* an explicit call ran the body and returned, the cancellation watcher it
\* woke has returned too, and the switch-exit watcher is inside Close
C16_Witness ==
    /\ cpc["user1"] = "done"
    /\ cpc["watchB"] = "done"
    /\ cpc["watchA"] = "check"
    /\ calls = 1
    /\ ~parentDone
    /\ returned = {"nil"}

\* C17: a cancelled parent context means a cancelled u.ctx, and the parent
\* context is cancelled by its owner only: no step of Close, of a watcher,
\* of New or of the switch cancels it.
C17_CancelDownwards ==
    /\ []((parentDone /\ ctxMade) => ctxDone)
    /\ [][(~parentDone /\ parentDone') => CancelParent]_vars

\* teardown by an explicit Close and by the switch-exit watcher has
\* finished and the parent context is still alive
C17_Witness ==
    /\ cpc["user1"] = "done"
    /\ cpc["watchA"] = "done"
    /\ closed
    /\ ctxDone
    /\ removeCalls = 1
    /\ ~parentDone

\* C18: checkTools over any list returns the lookup error of the first tool
\* in list order whose lookup fails with another error, if there is one;
\* otherwise one error listing every tool that was not found, in list order;
\* otherwise nil.
C18_CheckToolsResult ==
    toolsOut # NoResult =>
        LET failing == {i \in 1..Len(toolsIn) : lookPath[toolsIn[i]] = "error"}
            first == CHOOSE i \in failing : \A j \in failing : i <= j
            notFound == SelectSeq(toolsIn, LAMBDA t : lookPath[t] = "notfound")
        IN  IF failing # {}
            THEN toolsOut = [kind |-> "lookup", tools |-> <<toolsIn[first]>>]
            ELSE IF Len(notFound) > 0
                 THEN toolsOut = [kind |-> "missing", tools |-> notFound]
                 ELSE toolsOut = NoErr

\* a tool that is not found comes before one whose lookup fails, and the
\* call returned the lookup error
C18_Witness ==
    /\ Len(toolsIn) = 3
    /\ lookPath[toolsIn[1]] = "notfound"
    /\ lookPath[toolsIn[2]] = "found"
    /\ lookPath[toolsIn[3]] = "error"
    /\ toolsOut = [kind |-> "lookup", tools |-> <<toolsIn[3]>>]

\* C19: the k-th address ipv4 returns is 172.20.0.(k mod 256) and the k-th
\* address ipv6 returns is fd00::(k mod 256): only the last byte of the
\* cursor moves, it wraps from 255 to 0 without a carry, and the addresses
\* are issued again after the wrap.
C19_LastByteWraps ==
    /\ \A k \in 1..Len(issued4) :
           issued4[k] = [FirstIP4 EXCEPT ![4] = k % ByteMod]
    /\ \A k \in 1..Len(issued6) :
           issued6[k] = [FirstIP6 EXCEPT ![16] = k % ByteMod]
    /\ nextIP4 = [FirstIP4 EXCEPT ![4] = (Len(issued4) + 1) % ByteMod]
    /\ nextIP6 = [FirstIP6 EXCEPT ![16] = (Len(issued6) + 1) % ByteMod]

\* both allocators have wrapped: the 255th, 256th and 257th addresses are
\* .255, .0 and .1 again
C19_Witness ==
    /\ Len(issued4) = ByteMod + 1
    /\ issued4[ByteMod - 1] = <<172, 20, 0, 255>>
    /\ issued4[ByteMod] = <<172, 20, 0, 0>>
    /\ issued4[ByteMod + 1] = issued4[1]
    /\ Len(issued6) = ByteMod + 1
    /\ issued6[ByteMod - 1][16] = 255
    /\ issued6[ByteMod][16] = 0
    /\ issued6[ByteMod + 1] = issued6[1]

\* C20: as long as no ipv4 call has begun while another was in progress,
\* the addresses returned are pairwise distinct (the k-th being the k-th of
\* the pool) and the cursor stands one past the last of them; the model
\* gives the calls no lock, so overlapping calls are reachable.
C20_SerializedDistinct ==
    ~overlapped =>
        /\ \A i, j \in 1..Len(rlog) : i # j => rlog[i] # rlog[j]
        /\ \A i \in 1..Len(rlog) : rlog[i] = [FirstIP4 EXCEPT ![4] = i % ByteMod]
        /\ (\A r \in Racers : rpc[r] = "idle") =>
               heap[cursor] = [FirstIP4 EXCEPT ![4] = (Len(rlog) + 1) % ByteMod]

\* two unserialized callers have both been given the same address
C20_Witness ==
    /\ overlapped
    /\ Len(rlog) = 2
    /\ rlog[1] = rlog[2]
    /\ \A r \in Racers : rpc[r] = "idle"

====
